---- MODULE Spec2Model ----
(***************************************************************************)
(* Model of the SMS forwarder (src/app.py): the intake callback handleSms, *)
(* the delivery record table sms_messages, the multipart reassembly        *)
(* buffer, the three forwarding queues with their worker threads, and the  *)
(* failed_services set with notify_failure.                                *)
(*                                                                         *)
(* src/app.py is the program.  main.py, sms.py, api.py, email.py and db.py  *)
(* are the same functions split into modules; the model follows app.py.    *)
(*                                                                         *)
(* Texts are sequences of one-character strings, so that concatenation is  *)
(* \o.  Timestamps are carried through the program unchanged and decide    *)
(* nothing; they are left out of tasks and rows.  SQL NULL and a missing   *)
(* dict key are both modelled by a record that lacks the field.            *)
(***************************************************************************)
EXTENDS Integers, Sequences, FiniteSets, TLC

VARIABLES config, budget, faults, sms_messages, multipart_messages,
          api_queue, sms_queue, email_queue, failed_services,
          pc, held, delay, tlog, notified

\* config              the configuration load_config returns (app.py:40-67)
\* sms_messages        the table sms_messages, row i having id i (app.py:73-85)
\* multipart_messages  the reassembly buffers, keyed <<sender, reference>>
\*                     (app.py:27-28)
\* api_queue, sms_queue, email_queue
\*                     the three forwarding queues (app.py:33-35)
\* failed_services     the services currently marked failed (app.py:38)
\* pc, held, delay     per worker thread: where its loop stands ("idle"
\*                     before queue.get, "inflight" while sending,
\*                     "sleeping" in time.sleep), the task it took, and the
\*                     seconds it sleeps
\* budget, faults      what the environment may still do: callbacks the
\*                     modem may make, attempts it may let fail
\* tlog, notified      history: per task instance its channel, message id,
\*                     number of send attempts and fate; per service the
\*                     notify_failure calls since its last successful send
vars == <<config, budget, faults, sms_messages, multipart_messages,
          api_queue, sms_queue, email_queue, failed_services,
          pc, held, delay, tlog, notified>>

(* ------------------------------ bounds -------------------------------- *)
\* MaxArrivals: callbacks the modem makes; MaxFaults: attempts the
\* environment lets fail; MaxLiveArrivals: callbacks in the specification
\* with unlimited failures; MaxFragments, MaxParts: callbacks and largest
\* total_parts of a header in the intake-only specification.
MaxArrivals == 2
MaxFaults == 2
MaxLiveArrivals == 1
MaxFragments == 3
MaxParts == 3
\* MaxApiArrivals, MaxApiFaults: callbacks and failing attempts in the
\* specification of the API channel.
MaxApiArrivals == 2
MaxApiFaults == 3
\* MaxPartArrivals: callbacks in the specification with multipart
\* messages and workers.
MaxPartArrivals == 2
\* The attempts column of the task log stops counting at MaxCounted.
MaxCounted == 4

(* ------------------------- program constants -------------------------- *)
DefaultMaxRetries == 3
BaseDelay == 5
NoId == 0
NoProvider == "None"
NoTask == [tid |-> 0]

Channels == {"API", "SMS", "Email"}
Texts == {<<"a">>, <<"b">>}
Refs == {7}
SupportedMethods == {"POST", "GET", "PUT"}

(* ------------------------------ helpers ------------------------------- *)
Get(d, k, default) == IF k \in DOMAIN d THEN d[k] ELSE default

SeqMax(s) == CHOOSE m \in {s[i] : i \in DOMAIN s} :
                 \A i \in DOMAIN s : s[i] <= m

RECURSIVE InsertPart(_, _)
InsertPart(sorted, p) ==
    IF sorted = <<>> THEN <<p>>
    ELSE IF sorted[Len(sorted)][1] <= p[1] THEN Append(sorted, p)
    ELSE Append(InsertPart(SubSeq(sorted, 1, Len(sorted) - 1), p),
                sorted[Len(sorted)])

\* The sort left out: parts stay in arrival order.
SortParts_ArrivalOrder(parts) == parts

RECURSIVE SortParts(_)
SortParts(parts) ==
    IF parts = <<>> THEN <<>>
    ELSE InsertPart(SortParts(SubSeq(parts, 1, Len(parts) - 1)),
                    parts[Len(parts)])

RECURSIVE JoinParts(_)
JoinParts(parts) ==
    IF parts = <<>> THEN <<>>
    ELSE parts[1][2] \o JoinParts(Tail(parts))

(* --------------------------- configuration ---------------------------- *)
\* config.json, as far as the workers read it.  AllOn: every channel
\* configured, caps 1 (SMS, API) and 2 (Email).  Delete: the default
\* provider has an unsupported method, a second provider raises the API cap
\* to 2, and there are no SMS recipients.
ConfigAllOn ==
    [sms_recipients |-> <<"r1">>,
     sms_max_retries |-> 1,
     email |-> [recipients |-> <<"e1">>],
     api_providers |-> <<[name |-> "p1", default |-> TRUE, method |-> "post",
                          max_retries |-> 1]>>,
     max_retries |-> 2]

ConfigDelete ==
    [sms_recipients |-> <<>>,
     email |-> [recipients |-> <<"e1">>, max_retries |-> 1],
     api_providers |-> <<[name |-> "p1", default |-> TRUE, method |-> "DELETE"],
                         [name |-> "p2", method |-> "PUT", max_retries |-> 2]>>]

\* NoApi: no API providers, two SMS recipients, caps 2 from the global
\* max_retries.
ConfigNoApi ==
    [sms_recipients |-> <<"r1", "r2">>,
     email |-> [recipients |-> <<"e1">>],
     api_providers |-> <<>>,
     max_retries |-> 2]

\* Providers: two default providers with caps 1 and (from the global
\* max_retries) 2, and a third, not default, with cap 3.  No SMS or email
\* recipients.
ConfigProviders ==
    [sms_recipients |-> <<>>,
     email |-> [recipients |-> <<>>],
     api_providers |-> <<[name |-> "p1", default |-> TRUE, method |-> "POST",
                          max_retries |-> 1],
                         [name |-> "p2", default |-> TRUE, method |-> "get"],
                         [name |-> "p3", default |-> FALSE, method |-> "PUT",
                          max_retries |-> 3]>>,
     max_retries |-> 2]

Configs == {ConfigAllOn, ConfigDelete}
ConfigsApi == {ConfigProviders, ConfigDelete}
ConfigsLive == {ConfigDelete, ConfigNoApi}

Truthy(list) == Len(list) > 0

(* ----------------------- delivery record store ------------------------ *)
\* INSERT INTO sms_messages: AUTOINCREMENT id = row index; the forwarded
\* columns take their DEFAULT 0.
InsertRow(table, row) ==
    Append(table, row @@ [api_forwarded |-> 0, sms_forwarded |-> 0,
                          email_forwarded |-> 0])

\* SELECT id ... WHERE sender = ? AND reference = ?  (rows with a NULL
\* reference never match); fetchone() takes the first row, NoId if none.
SelectBySenderRef(table, sender, reference) ==
    LET hits == {i \in DOMAIN table :
                    /\ table[i].sender = sender
                    /\ "reference" \in DOMAIN table[i]
                    /\ table[i].reference = reference}
    IN IF hits = {} THEN NoId
       ELSE CHOOSE i \in hits : \A j \in hits : i <= j

\* No SELECT: every fragment is inserted as a record of its own.
save_or_update_sms_AlwaysInsert(table, sender, text, f) ==
    [table |-> InsertRow(table, [sender |-> sender, message_text |-> text]
                                @@ (IF "reference" \in DOMAIN f
                                    THEN [reference |-> f.reference,
                                          total_parts |-> f.parts]
                                    ELSE <<>>)),
     sms_id |-> Len(table) + 1]

\* save_or_update_sms: the table after the call and the id it returns.
\* f is the Concatenation header of the fragment, or absent (reference=None).
save_or_update_sms(table, sender, text, f) ==
    IF "reference" \notin DOMAIN f
    THEN [table |-> InsertRow(table, [sender |-> sender, message_text |-> text]),
          sms_id |-> Len(table) + 1]
    ELSE LET found == SelectBySenderRef(table, sender, f.reference) IN
         IF found = NoId
         THEN [table |-> InsertRow(table, [sender |-> sender,
                                           reference |-> f.reference,
                                           total_parts |-> f.parts,
                                           message_text |-> text]),
               sms_id |-> Len(table) + 1]
         ELSE LET existing_text == table[found].message_text
                  updated_text == IF f.number > 1 THEN existing_text \o text
                                  ELSE text \o existing_text
              IN [table |-> [table EXCEPT ![found].message_text = updated_text],
                  sms_id |-> found]

\* The column counted up instead of set.
mark_as_forwarded_Increment(table, sms_id, chan) ==
    [i \in DOMAIN table |->
        IF i = sms_id
        THEN [table[i] EXCEPT ![CASE chan = "API" -> "api_forwarded"
                                   [] chan = "SMS" -> "sms_forwarded"
                                   [] chan = "Email" -> "email_forwarded"] = @ + 1]
        ELSE table[i]]

\* All three columns written, the channel's with 1 and the others with the
\* defaults of the keyword arguments.
mark_as_forwarded_WholeRecord(table, sms_id, chan) ==
    [i \in DOMAIN table |->
        IF i = sms_id
        THEN [table[i] EXCEPT
                 !.api_forwarded = IF chan = "API" THEN 1 ELSE 0,
                 !.sms_forwarded = IF chan = "SMS" THEN 1 ELSE 0,
                 !.email_forwarded = IF chan = "Email" THEN 1 ELSE 0]
        ELSE table[i]]

\* The UPDATE never committed.
mark_as_forwarded_Lost(table, sms_id, chan) == table

\* mark_as_forwarded(db_file, sms_id, <channel>_forwarded=True):
\* UPDATE ... SET <column> = 1 WHERE id = ?  (no row, no change).
Column(chan) == CASE chan = "API" -> "api_forwarded"
                  [] chan = "SMS" -> "sms_forwarded"
                  [] chan = "Email" -> "email_forwarded"

mark_as_forwarded(table, sms_id, chan) ==
    [i \in DOMAIN table |->
        IF i = sms_id THEN [table[i] EXCEPT ![Column(chan)] = 1]
        ELSE table[i]]

(* ------------------------------- tasks -------------------------------- *)
\* A task is the tuple put on a queue; tid is a history tag naming the task
\* instance, carried through re-enqueues.
ApiTask(sender, message, sms_id, retry_count, provider, tid) ==
    [sender |-> sender, message |-> message, sms_id |-> sms_id,
     retry_count |-> retry_count, provider |-> provider, tid |-> tid]

Task(sender, message, sms_id, retry_count, tid) ==
    [sender |-> sender, message |-> message, sms_id |-> sms_id,
     retry_count |-> retry_count, tid |-> tid]

Counted(n) == IF n < MaxCounted THEN n + 1 ELSE n

LogEntry(chan, sms_id) ==
    [chan |-> chan, sms_id |-> sms_id, attempts |-> 0, fate |-> "live"]

\* The f-string of notify_failure, as the sequence of its pieces.
FailureMessage(service_name, sms_id) ==
    <<"Service ", service_name, " failed after max retries for SMS ID: ",
      ToString(sms_id)>>

(* --------------------------- notify_failure --------------------------- *)
\* notify_failure without the look at failed_services.
notify_failure_ToAll(service_name, sms_id, fs, qs, log) ==
    LET message == FailureMessage(service_name, sms_id)
        n == Len(log)
    IN [SMS |-> Append(qs.SMS, Task("System", message, NoId, 0, n + 1)),
        Email |-> Append(qs.Email, Task("System", message, NoId, 0, n + 2)),
        API |-> Append(qs.API, ApiTask("System", message, NoId, 0,
                                       NoProvider, n + 3)),
        log |-> log \o <<LogEntry("SMS", NoId), LogEntry("Email", NoId),
                         LogEntry("API", NoId)>>]

\* The queues and the task log after notify_failure(service_name, sms_id),
\* given the failure set fs at the time of the call.
notify_failure(service_name, sms_id, fs, qs, log) ==
    LET message == FailureMessage(service_name, sms_id)
        toSms == "SMS" \notin fs /\ Truthy(config.sms_recipients)
        toEmail == "Email" \notin fs /\ Truthy(Get(config.email, "recipients", <<>>))
        toApi == "API" \notin fs /\ Truthy(config.api_providers)
        log1 == IF toSms THEN Append(log, LogEntry("SMS", NoId)) ELSE log
        log2 == IF toEmail THEN Append(log1, LogEntry("Email", NoId)) ELSE log1
        log3 == IF toApi THEN Append(log2, LogEntry("API", NoId)) ELSE log2
    IN [SMS |-> IF toSms
                THEN Append(qs.SMS, Task("System", message, NoId, 0, Len(log1)))
                ELSE qs.SMS,
        Email |-> IF toEmail
                  THEN Append(qs.Email, Task("System", message, NoId, 0, Len(log2)))
                  ELSE qs.Email,
        API |-> IF toApi
                THEN Append(qs.API, ApiTask("System", message, NoId, 0,
                                            NoProvider, Len(log3)))
                ELSE qs.API,
        log |-> log3]

Queues == [API |-> api_queue, SMS |-> sms_queue, Email |-> email_queue]

SetQueues(qs) ==
    /\ api_queue' = qs.API
    /\ sms_queue' = qs.SMS
    /\ email_queue' = qs.Email

(* ------------------------ send_to_api_providers ----------------------- *)
\* str.upper() on the method names a configuration may hold.
Upper(method) ==
    CASE method = "post" -> "POST"
      [] method = "get" -> "GET"
      [] method = "put" -> "PUT"
      [] method = "delete" -> "DELETE"
      [] OTHER -> method

\* The providers a task's hint selects: the named one, or the defaults.
SelectedProviders(api_providers, provider_name) ==
    SelectSeq(api_providers,
              LAMBDA p : IF provider_name # NoProvider
                         THEN p.name = provider_name
                         ELSE Get(p, "default", FALSE))

\* The loop left at the first provider that answers 2xx.
send_to_api_providers_StopAtFirstSuccess(api_providers, provider_name, ok) ==
    LET selected == SelectedProviders(api_providers, provider_name)
        supported(p) == Upper(Get(p, "method", "POST")) \in SupportedMethods
        asked == SelectSeq(selected, supported)
        hits == {i \in DOMAIN asked : asked[i].name \in ok}
    IN [success |-> hits # {},
        requests |-> IF hits = {} THEN asked
                     ELSE SubSeq(asked, 1, CHOOSE i \in hits :
                                              \A j \in hits : i <= j)]

\* One pass over the selected providers.  ok is the set of provider names
\* whose HTTP request would come back 2xx.  requests lists the providers a
\* request was made to; an unsupported method raises ValueError inside the
\* try block, which the except clause logs like a failed request.
send_to_api_providers(api_providers, provider_name, ok) ==
    LET selected == SelectedProviders(api_providers, provider_name)
        supported(p) == Upper(Get(p, "method", "POST")) \in SupportedMethods
    IN [success |-> \E i \in DOMAIN selected :
                        supported(selected[i]) /\ selected[i].name \in ok,
        requests |-> SelectSeq(selected, supported)]

(* ------------------------------ workers ------------------------------- *)
global_max_retries == Get(config, "max_retries", DefaultMaxRetries)

\* What each worker tests before sending: api_providers, recipients,
\* email_config.get("recipients").
Recipients(chan) ==
    CASE chan = "API" -> config.api_providers
      [] chan = "SMS" -> config.sms_recipients
      [] chan = "Email" -> Get(config.email, "recipients", <<>>)

\* The endpoints whose outcome the environment decides in one attempt.
Targets(chan) ==
    CASE chan = "API" -> {config.api_providers[i].name :
                              i \in DOMAIN config.api_providers}
      [] chan = "SMS" -> {config.sms_recipients[i] :
                              i \in DOMAIN config.sms_recipients}
      [] chan = "Email" -> {"smtp"}

max_retries(chan) ==
    CASE chan = "API" ->
           SeqMax([i \in DOMAIN config.api_providers |->
                     Get(config.api_providers[i], "max_retries",
                         global_max_retries)])
      [] chan = "SMS" -> Get(config, "sms_max_retries", global_max_retries)
      [] chan = "Email" -> Get(config.email, "max_retries", global_max_retries)

SendSucceeds(chan, task, ok) ==
    CASE chan = "API" ->
           send_to_api_providers(config.api_providers, task.provider, ok).success
      [] chan = "SMS" -> \E i \in DOMAIN config.sms_recipients :
                             config.sms_recipients[i] \in ok
      [] chan = "Email" -> "smtp" \in ok

\* The increment left out.
NextRetryCount_Stuck(task) == task.retry_count

\* `retry_count += 1`
NextRetryCount(task) == task.retry_count + 1

\* `if retry_count < max_retries:` with an off-by-one slip.
ShouldRetry_OffByOne(chan, retry_count) == retry_count <= max_retries(chan)

\* `if retry_count < max_retries:` retry, else the failure is terminal.
ShouldRetry(chan, retry_count) == retry_count < max_retries(chan)

\* time.sleep(5 * retry_count)
BackoffDelay(retry_count) == BaseDelay * retry_count

\* Notifying on every terminal failure of a message, failed already or not.
ShouldNotify_EveryFailure(chan, task) == task.sms_id # NoId

\* Notifying for tasks without a message id too.
ShouldNotify_AnyTask(chan, task) == chan \notin failed_services

\* `if X not in failed_services: ... if sms_id: notify_failure(X, sms_id)`
ShouldNotify(chan, task) ==
    chan \notin failed_services /\ task.sms_id # NoId

\* A success clears the whole set.
Restored_Everything(chan) == {}

\* The restore left out.
Restored_Never(chan) == failed_services

\* `if X in failed_services: failed_services.remove(X)`
Restored(chan) == failed_services \ {chan}

\* One thread for all channels: a sleep anywhere stalls every loop.
Runnable_SharedThread(chan) ==
    pc[chan] = "idle" /\ \A c \in Channels : pc[c] # "sleeping"

\* Each worker is a thread of its own (app.py:458-463) and waits in its own
\* queue.get(): it can take a task whenever it stands at the top of its loop.
Runnable(chan) == pc[chan] = "idle"

\* A stack instead of a queue: the newest task is taken first.
QueueGet_Lifo(q) == [task |-> q[Len(q)], rest |-> SubSeq(q, 1, Len(q) - 1)]

\* queue.Queue.get(): the oldest task, and what stays in the queue.
QueueGet(q) == [task |-> Head(q), rest |-> Tail(q)]

\* The task put back at the front of the queue.
QueuePut_AtHead(q, task) == <<task>> \o q

\* The task put back twice.
QueuePut_Twice(q, task) == Append(Append(q, task), task)

\* queue.Queue.put(): the task goes to the tail.
QueuePut(q, task) == Append(q, task)

\* queue.get(), then the "skipped: nothing configured" early continue.
Dequeue(chan) ==
    /\ Runnable(chan)
    /\ Queues[chan] # <<>>
    /\ LET task == QueueGet(Queues[chan]).task IN
         /\ SetQueues([Queues EXCEPT ![chan] = QueueGet(@).rest])
         /\ IF ~Truthy(Recipients(chan))
            THEN /\ tlog' = [tlog EXCEPT ![task.tid].fate = "skipped"]
                 /\ UNCHANGED <<pc, held>>
            ELSE /\ pc' = [pc EXCEPT ![chan] = "inflight"]
                 /\ held' = [held EXCEPT ![chan] = task]
                 /\ UNCHANGED tlog
    /\ UNCHANGED <<config, budget, faults, sms_messages, multipart_messages,
                   failed_services, delay, notified>>

\* A task without an id marks the newest record.
Marked_NewestRecord(chan, task) ==
    mark_as_forwarded(sms_messages,
                      IF task.sms_id # NoId THEN task.sms_id
                      ELSE Len(sms_messages), chan)

\* `if sms_id: mark_as_forwarded(db_file, sms_id, <channel>_forwarded=True)`
Marked(chan, task) ==
    IF task.sms_id # NoId
    THEN mark_as_forwarded(sms_messages, task.sms_id, chan)
    ELSE sms_messages

\* notify_failure called before the channel is added.
FailedAtCall_AddedAfter(chan) == failed_services

\* `failed_services.add(X)` comes before `notify_failure(X, sms_id)`: the
\* failure set notify_failure looks at holds X.
FailedAtCall(chan) == failed_services \cup {chan}

\* The success branch of a worker.
OnSuccess(chan, task) ==
    /\ sms_messages' = Marked(chan, task)
    /\ failed_services' = Restored(chan)
    /\ notified' = [notified EXCEPT ![chan] = 0]
    /\ tlog' = [tlog EXCEPT ![task.tid].attempts = Counted(@),
                            ![task.tid].fate = "delivered"]
    /\ pc' = [pc EXCEPT ![chan] = "idle"]
    /\ held' = [held EXCEPT ![chan] = NoTask]
    /\ UNCHANGED <<api_queue, sms_queue, email_queue, delay>>

\* The failure branch of a worker, up to the start of time.sleep.
OnFailure(chan, task) ==
    LET retry_count == NextRetryCount(task)
        attempted == [tlog EXCEPT ![task.tid].attempts = Counted(@)]
    IN IF ShouldRetry(chan, retry_count)
       THEN /\ pc' = [pc EXCEPT ![chan] = "sleeping"]
            /\ held' = [held EXCEPT ![chan] =
                            [task EXCEPT !.retry_count = retry_count]]
            /\ delay' = [delay EXCEPT ![chan] = BackoffDelay(retry_count)]
            /\ tlog' = attempted
            /\ UNCHANGED <<api_queue, sms_queue, email_queue,
                           failed_services, notified, sms_messages>>
       ELSE LET final == [attempted EXCEPT ![task.tid].fate = "terminal"]
                notify == ShouldNotify(chan, task)
                out == notify_failure(chan, task.sms_id,
                                      FailedAtCall(chan), Queues, final)
            IN /\ failed_services' = failed_services \cup {chan}
               /\ IF notify
                  THEN /\ SetQueues(out)
                       /\ tlog' = out.log
                       /\ notified' = [notified EXCEPT ![chan] = @ + 1]
                  ELSE /\ tlog' = final
                       /\ UNCHANGED <<api_queue, sms_queue, email_queue,
                                      notified>>
               /\ pc' = [pc EXCEPT ![chan] = "idle"]
               /\ held' = [held EXCEPT ![chan] = NoTask]
               /\ UNCHANGED <<delay, sms_messages>>

\* One send attempt of the task in flight and the branch it leads to.
\* ok is the set of targets whose request goes through.
Attempt(chan, ok) ==
    /\ pc[chan] = "inflight"
    /\ IF SendSucceeds(chan, held[chan], ok)
       THEN OnSuccess(chan, held[chan])
       ELSE OnFailure(chan, held[chan])
    /\ UNCHANGED <<config, budget, multipart_messages>>

\* time.sleep returns; the task is put back at the tail of its queue.
Requeue(chan) ==
    /\ pc[chan] = "sleeping"
    /\ SetQueues([Queues EXCEPT ![chan] = QueuePut(@, held[chan])])
    /\ pc' = [pc EXCEPT ![chan] = "idle"]
    /\ held' = [held EXCEPT ![chan] = NoTask]
    /\ delay' = [delay EXCEPT ![chan] = 0]
    /\ UNCHANGED <<config, budget, faults, sms_messages, multipart_messages,
                   failed_services, tlog, notified>>

(* ------------------------------- intake ------------------------------- *)
\* The messages the modem can hand to the callback: without a header, or
\* with a Concatenation header (reference, parts, number).
\* Headers are well formed: 1 <= number <= parts.
Headers(maxParts) ==
    {h \in [reference : Refs, parts : 1..maxParts, number : 1..maxParts] :
        h.number <= h.parts}
ArrivalsOf(senders, texts, maxParts) ==
    [number : senders, text : texts]
    \cup [number : senders, text : texts, udh : Headers(maxParts)]
\* With the workers running, the messages arrive in one part; the
\* intake-only specification takes multipart messages as well.
Arrivals == [number : {"+111"}, text : {<<"a">>}]
IntakeArrivals == ArrivalsOf({"+111"}, Texts, MaxParts)
Providers == {NoProvider}

RemoveKey(f, k) == [x \in DOMAIN f \ {k} |-> f[x]]

\* Every fragment forwarded to the API on arrival.
FirstPartToApi_EveryPart(part_num) == TRUE

\* `if part_num == 1: api_queue.put((sender, timestamp, text, sms_id, 0,
\* provider))`: the first part goes to the API as it arrives.
FirstPartToApi(part_num) == part_num = 1

handleSms(sms, provider) ==
    LET sender == sms.number
        text == sms.text
    IN
    /\ budget > 0
    /\ budget' = budget - 1
    /\ IF "udh" \in DOMAIN sms
       THEN LET ref_num == sms.udh.reference
                total_parts == sms.udh.parts
                part_num == sms.udh.number
                saved == save_or_update_sms(sms_messages, sender, text, sms.udh)
                sms_id == saved.sms_id
                key == <<sender, ref_num>>
                message_data == IF key \in DOMAIN multipart_messages
                                THEN multipart_messages[key]
                                ELSE [parts |-> <<>>, total_parts |-> total_parts]
                parts == Append(message_data.parts, <<part_num, text>>)
                first == FirstPartToApi(part_num)
                log1 == IF first THEN Append(tlog, LogEntry("API", sms_id))
                        ELSE tlog
                api1 == IF first
                        THEN Append(api_queue,
                                    ApiTask(sender, text, sms_id, 0, provider,
                                            Len(log1)))
                        ELSE api_queue
            IN /\ sms_messages' = saved.table
               /\ IF Len(parts) = total_parts
                  THEN LET complete_message == JoinParts(SortParts(parts))
                           n == Len(log1)
                       IN /\ sms_queue' = Append(sms_queue,
                                 Task(sender, complete_message, sms_id, 0, n + 1))
                          /\ email_queue' = Append(email_queue,
                                 Task(sender, complete_message, sms_id, 0, n + 2))
                          /\ api_queue' = Append(api1,
                                 ApiTask(sender, complete_message, sms_id, 0,
                                         provider, n + 3))
                          /\ tlog' = log1 \o <<LogEntry("SMS", sms_id),
                                               LogEntry("Email", sms_id),
                                               LogEntry("API", sms_id)>>
                          /\ multipart_messages' = RemoveKey(multipart_messages, key)
                  ELSE /\ api_queue' = api1
                       /\ tlog' = log1
                       /\ multipart_messages' =
                              [k \in DOMAIN multipart_messages \cup {key} |->
                                  IF k = key
                                  THEN [message_data EXCEPT !.parts = parts]
                                  ELSE multipart_messages[k]]
                       /\ UNCHANGED <<sms_queue, email_queue>>
       ELSE LET saved == save_or_update_sms(sms_messages, sender, text,
                                            [none |-> TRUE])
                sms_id == saved.sms_id
                n == Len(tlog)
            IN /\ sms_messages' = saved.table
               /\ api_queue' = Append(api_queue,
                      ApiTask(sender, text, sms_id, 0, provider, n + 1))
               /\ sms_queue' = Append(sms_queue,
                      Task(sender, text, sms_id, 0, n + 2))
               /\ email_queue' = Append(email_queue,
                      Task(sender, text, sms_id, 0, n + 3))
               /\ tlog' = tlog \o <<LogEntry("API", sms_id),
                                    LogEntry("SMS", sms_id),
                                    LogEntry("Email", sms_id)>>
               /\ UNCHANGED multipart_messages
    /\ UNCHANGED <<config, faults, failed_services, pc, held, delay, notified>>

(* --------------------------- specification ---------------------------- *)
InitWith(configs, arrivals, failures) ==
    /\ config \in configs
    /\ budget = arrivals
    /\ faults = failures
    /\ sms_messages = <<>>
    /\ multipart_messages = <<>>
    /\ api_queue = <<>>
    /\ sms_queue = <<>>
    /\ email_queue = <<>>
    /\ failed_services = {}
    /\ pc = [c \in Channels |-> "idle"]
    /\ held = [c \in Channels |-> NoTask]
    /\ delay = [c \in Channels |-> 0]
    /\ tlog = <<>>
    /\ notified = [c \in Channels |-> 0]

Intake == \E sms \in Arrivals, provider \in Providers : handleSms(sms, provider)

\* The environment's failure budget: an attempt in which some request
\* fails uses up one of the failures the run is allowed.
Charge(chan, ok) ==
    IF ok = Targets(chan) THEN faults' = faults
    ELSE faults > 0 /\ faults' = faults - 1

Worker(chan) ==
    \/ Dequeue(chan)
    \/ \E ok \in SUBSET Targets(chan) : Attempt(chan, ok) /\ Charge(chan, ok)
    \/ Requeue(chan)

Next == Intake \/ \E chan \in Channels : Worker(chan)

Init == InitWith(Configs, MaxArrivals, MaxFaults)
Spec == Init /\ [][Next]_vars

\* Requests may fail without limit.  The workers are threads the scheduler
\* keeps running: each takes its next step when it has one.
WorkerLive(chan) ==
    \/ Dequeue(chan)
    \/ \E ok \in SUBSET Targets(chan) : Attempt(chan, ok) /\ faults' = faults
    \/ Requeue(chan)

NextLive == Intake \/ \E chan \in Channels : WorkerLive(chan)
InitLive == InitWith(ConfigsLive, MaxLiveArrivals, 0)
SpecLive == InitLive /\ [][NextLive]_vars
                /\ \A chan \in Channels : WF_vars(WorkerLive(chan))

\* Every request succeeds, fair workers.
WorkerOk(chan) ==
    \/ Dequeue(chan)
    \/ Attempt(chan, Targets(chan)) /\ faults' = faults

NextOk == Intake \/ \E chan \in Channels : WorkerOk(chan)
InitOk == InitWith({ConfigAllOn}, MaxArrivals, 0)
SpecOk == InitOk /\ [][NextOk]_vars
              /\ \A chan \in Channels : WF_vars(WorkerOk(chan))

\* The API channel alone: handleSms called with and without a provider
\* hint (a configured name, or a name no provider has), any provider's
\* request failing or going through.
ProviderHints == {NoProvider, "p1", "p3", "p9"}

IntakeApi == \E sms \in Arrivals, provider \in ProviderHints :
                 handleSms(sms, provider)
NextApi == IntakeApi \/ Worker("API")
InitApi == InitWith(ConfigsApi, MaxApiArrivals, MaxApiFaults)
SpecApi == InitApi /\ [][NextApi]_vars

\* Multipart messages with the workers running, every request succeeding.
IntakeParts == \E sms \in IntakeArrivals, provider \in Providers :
                   handleSms(sms, provider)
NextParts == IntakeParts \/ \E chan \in Channels : WorkerOk(chan)
InitParts == InitWith({ConfigAllOn}, MaxPartArrivals, 0)
SpecParts == InitParts /\ [][NextParts]_vars

\* The intake path alone, on a larger set of arrivals.
IntakeOnly == \E sms \in IntakeArrivals, provider \in Providers :
                  handleSms(sms, provider)
InitIntake == InitWith({ConfigAllOn}, MaxFragments, 0)
SpecIntake == InitIntake /\ [][IntakeOnly]_vars

(* ----------------------- vocabulary of the claims --------------------- *)
Last(q) == q[Len(q)]

\* Every task that sits in a queue or in a worker's hands, with its place.
Placed ==
    UNION {{[task |-> Queues[c][i], chan |-> c, at |-> "queue"] :
               i \in DOMAIN Queues[c]} : c \in Channels}
    \cup {[task |-> held[c], chan |-> c, at |-> pc[c]] :
             c \in {x \in Channels : pc[x] # "idle"}}

\* The step is a send attempt of task tid that ends the way `fate` says.
Ends(tid, fate) ==
    /\ tid \in DOMAIN tlog
    /\ tlog[tid].fate = "live"
    /\ tlog'[tid].fate = fate

\* The tasks this step put on channel c's queue for the first time.
NewTasks(c) ==
    {Queues[c]'[i] : i \in {j \in DOMAIN Queues[c]' :
                               Queues[c]'[j].tid > Len(tlog)}}

IsNotification(task) == task.sender = "System" /\ task.sms_id = NoId

(* ------------------------------- C1 ----------------------------------- *)
\* The text of part number i among parts.
TextOfPart(parts, i) ==
    parts[CHOOSE j \in DOMAIN parts : parts[j][1] = i][2]

RECURSIVE InPartOrder(_, _)
InPartOrder(parts, n) ==
    IF n = 0 THEN <<>>
    ELSE InPartOrder(parts, n - 1) \o TextOfPart(parts, n)

\* The fragments buffered for sms's key together with sms itself.
FragmentsWith(sms) ==
    LET key == <<sms.number, sms.udh.reference>>
        before == IF key \in DOMAIN multipart_messages
                  THEN multipart_messages[key].parts ELSE <<>>
    IN Append(before, <<sms.udh.number, sms.text>>)

\* sms is the last fragment of a message whose fragments carry the part
\* numbers 1..N once each, N being the total_parts they report.
CompletesExactly(sms) ==
    LET key == <<sms.number, sms.udh.reference>>
        all == FragmentsWith(sms)
        N == sms.udh.parts
    IN /\ Len(all) = N
       /\ {all[i][1] : i \in DOMAIN all} = 1..N
       /\ key \in DOMAIN multipart_messages
              => multipart_messages[key].total_parts = N

Places(tid) == {p \in Placed : p.task.tid = tid}

\* Every attempt of a task that is still live or ended terminal has failed,
\* so its attempts count its failures.
RetrySchedule(tid) ==
    LET e == tlog[tid]
        M == max_retries(e.chan)
        k == e.attempts
    IN M >= 1 =>
       /\ k <= M
       /\ e.fate = "terminal" => k = M /\ Places(tid) = {}
       /\ e.fate = "live" =>
            /\ k < M
            /\ \E p \in Places(tid) : p.chan = e.chan
            /\ \A p \in Places(tid) :
                 /\ p.task.retry_count = k
                 /\ p.at = "sleeping" => k >= 1 /\ delay[p.chan] = 5 * k

\* C2: with retry cap M >= 1 a task that keeps failing is attempted M
\* times; after its k-th failure, k < M, the worker waits 5*k seconds and
\* puts the task back at the tail of its queue with retry_count = k; the
\* M-th failure is terminal and the task is not put back.
C2_RetrySchedule ==
    /\ [](\A tid \in DOMAIN tlog :
             Truthy(Recipients(tlog[tid].chan)) => RetrySchedule(tid))
    /\ [][\A c \in Channels :
             pc[c] = "sleeping" /\ pc'[c] # "sleeping"
             => Queues[c]' = Append(Queues[c], held[c])]_vars
    /\ [][\A tid \in DOMAIN tlog :
             tlog[tid].fate = "terminal" => tlog'[tid] = tlog[tid]]_vars

\* A task has failed twice on a channel with cap 2 and ended terminal.
C2_Witness ==
    \E tid \in DOMAIN tlog :
        /\ tlog[tid].fate = "terminal"
        /\ tlog[tid].attempts = 2
        /\ max_retries(tlog[tid].chan) = 2

(* ------------------------------- C3 ----------------------------------- *)
\* notified[X] counts the notify_failure(X, ..) calls since the last
\* successful send on X.
\* C3: between two successful deliveries on channel X notify_failure is
\* called for X at most once; while X is in the failure set no step calls
\* it for X or enqueues a notification that names X.
C3_OneNotificationPerOutage ==
    /\ [](\A X \in Channels : notified[X] <= 1)
    /\ [][\A X \in Channels :
             X \in failed_services =>
                /\ notified'[X] <= notified[X]
                /\ \A c \in Channels : \A t \in NewTasks(c) :
                       IsNotification(t) => t.message[2] # X]_vars

TerminalWithId(X) ==
    {tid \in DOMAIN tlog : /\ tlog[tid].chan = X
                           /\ tlog[tid].fate = "terminal"
                           /\ tlog[tid].sms_id # NoId}

\* Two messages have failed terminally on SMS within one outage.
C3_Witness ==
    /\ "SMS" \in failed_services
    /\ notified["SMS"] = 1
    /\ Cardinality(TerminalWithId("SMS")) = 2

(* ------------------------------- C4 ----------------------------------- *)
QueuesUnchanged == UNCHANGED <<api_queue, sms_queue, email_queue>>

\* C4 as stated: every terminal failure on a channel outside the
\* failure set adds the channel and calls notify_failure once, with or
\* without a message id.
C4_EveryTerminalFailureNotifies ==
    [][\A tid \in DOMAIN tlog :
          LET X == tlog[tid].chan IN
          (Ends(tid, "terminal") /\ X \notin failed_services)
          => /\ failed_services' = failed_services \cup {X}
             /\ notified'[X] = notified[X] + 1]_vars

\* C4 (amended): a terminal failure on a channel X outside the failure set
\* adds X to the failure set; if the task carries a message id it calls
\* notify_failure exactly once (at most one new task per queue, each naming
\* X); if the task carries none, nothing is notified or enqueued.
C4_TerminalFailureNotifiesForMessages ==
    [][\A tid \in DOMAIN tlog :
          LET X == tlog[tid].chan IN
          (Ends(tid, "terminal") /\ X \notin failed_services)
          => /\ failed_services' = failed_services \cup {X}
             /\ IF tlog[tid].sms_id # NoId
                THEN /\ notified'[X] = notified[X] + 1
                     /\ \A c \in Channels :
                          /\ Cardinality(NewTasks(c)) <= 1
                          /\ \A t \in NewTasks(c) :
                               IsNotification(t) /\ t.message[2] = X
                ELSE /\ notified' = notified
                     /\ QueuesUnchanged
                     /\ Len(tlog') = Len(tlog)]_vars

\* A notification task has failed terminally and put its channel in the
\* failure set without any notification.
C4_Witness ==
    \E tid \in DOMAIN tlog :
        /\ tlog[tid].sms_id = NoId
        /\ tlog[tid].fate = "terminal"
        /\ tlog[tid].chan \in failed_services
        /\ TerminalWithId(tlog[tid].chan) = {}
        /\ notified[tlog[tid].chan] = 0

(* ------------------------------- C5 ----------------------------------- *)
NotificationsOn(c) ==
    {tid \in DOMAIN tlog : tlog[tid].chan = c /\ tlog[tid].sms_id = NoId}

\* t is a fresh notification that names service X and message id m.
Announces(t, X, m) ==
    /\ IsNotification(t)
    /\ t.retry_count = 0
    /\ t.message[2] = X
    /\ t.message[4] = ToString(m)

\* C5: when a message with id m fails terminally on SMS while SMS is not in
\* the failure set and API and Email are configured and not in it either,
\* SMS joins the failure set, the API queue and the Email queue each get
\* exactly one notification naming "SMS" and m, and the SMS queue gets
\* none; a terminal SMS failure while SMS is in the failure set enqueues
\* nothing.
C5_SmsOutageNotifiesOthersOnce ==
    [][\A tid \in DOMAIN tlog :
          (/\ Ends(tid, "terminal")
           /\ tlog[tid].chan = "SMS"
           /\ tlog[tid].sms_id # NoId)
          => /\ (/\ failed_services = {}
                 /\ Truthy(Recipients("API"))
                 /\ Truthy(Recipients("Email")))
                => /\ failed_services' = {"SMS"}
                   /\ sms_queue' = sms_queue
                   /\ api_queue' = Append(api_queue, Last(api_queue'))
                   /\ Announces(Last(api_queue'), "SMS", tlog[tid].sms_id)
                   /\ email_queue' = Append(email_queue, Last(email_queue'))
                   /\ Announces(Last(email_queue'), "SMS", tlog[tid].sms_id)
             /\ "SMS" \in failed_services => QueuesUnchanged]_vars

\* Two messages have failed terminally on SMS, and API and Email have each
\* seen one notification.
C5_Witness ==
    /\ failed_services = {"SMS"}
    /\ Cardinality(TerminalWithId("SMS")) = 2
    /\ Cardinality(NotificationsOn("API")) = 1
    /\ Cardinality(NotificationsOn("Email")) = 1
    /\ NotificationsOn("SMS") = {}

(* ------------------------------- C6 ----------------------------------- *)
\* C6: a successful send on a channel X that is in the failure set removes
\* X from it in the same step and enqueues nothing.
C6_RecoveryIsSilent ==
    [][\A tid \in DOMAIN tlog :
          LET X == tlog[tid].chan IN
          (Ends(tid, "delivered") /\ X \in failed_services)
          => /\ failed_services' = failed_services \ {X}
             /\ X \notin failed_services'
             /\ QueuesUnchanged
             /\ Len(tlog') = Len(tlog)]_vars

\* A channel has failed terminally and has since delivered a task.
C6_Witness ==
    \E X \in Channels :
        /\ X \notin failed_services
        /\ \E tid \in DOMAIN tlog :
              tlog[tid].chan = X /\ tlog[tid].fate = "terminal"
        /\ \E tid \in DOMAIN tlog :
              tlog[tid].chan = X /\ tlog[tid].fate = "delivered"

(* ------------------------------- C7 ----------------------------------- *)
\* C7: on every table the program reaches, for every id and channel,
\* mark_as_forwarded applied twice gives the table it gives applied once.
C7_MarkIdempotent ==
    \A sms_id \in 0..(Len(sms_messages) + 1), chan \in Channels :
        mark_as_forwarded(mark_as_forwarded(sms_messages, sms_id, chan),
                          sms_id, chan)
        = mark_as_forwarded(sms_messages, sms_id, chan)

\* A row whose SMS flag a worker has set while its API flag is still 0.
C7_Witness ==
    \E i \in DOMAIN sms_messages :
        /\ sms_messages[i].sms_forwarded = 1
        /\ sms_messages[i].api_forwarded = 0

(* ------------------------------- C8 ----------------------------------- *)
SinglePart(id) ==
    id \in DOMAIN sms_messages /\ "reference" \notin DOMAIN sms_messages[id]

TasksOf(id, c) ==
    {tid \in DOMAIN tlog : tlog[tid].sms_id = id /\ tlog[tid].chan = c}

AllForwarded(id) ==
    /\ sms_messages[id].api_forwarded = 1
    /\ sms_messages[id].sms_forwarded = 1
    /\ sms_messages[id].email_forwarded = 1

\* One task per channel for record id, sent at most once, never retried.
SentOncePerChannel(id) ==
    \A c \in Channels :
        /\ Cardinality(TasksOf(id, c)) = 1
        /\ \A tid \in TasksOf(id, c) :
             /\ tlog[tid].fate \in {"live", "delivered"}
             /\ tlog[tid].attempts = IF tlog[tid].fate = "delivered" THEN 1 ELSE 0
             /\ \A p \in Places(tid) :
                  p.task.retry_count = 0 /\ p.at # "sleeping"

\* C8: with all three channels configured and every send succeeding, a
\* single-part message creates exactly one record, each channel sends it
\* exactly once with retry_count 0 and never re-enqueues it, and in the end
\* the record has all three forwarded flags set.
C8_SinglePartAllChannelsSucceed ==
    /\ [](\A id \in DOMAIN sms_messages : SinglePart(id) => SentOncePerChannel(id))
    /\ [][\A sms \in Arrivals, provider \in Providers :
             (handleSms(sms, provider) /\ "udh" \notin DOMAIN sms)
             => /\ Len(sms_messages') = Len(sms_messages) + 1
                /\ SubSeq(sms_messages', 1, Len(sms_messages)) = sms_messages]_vars
    /\ \A id \in 1..MaxArrivals :
          SinglePart(id) ~> (SinglePart(id) /\ AllForwarded(id))

\* A single-part message has been delivered on all three channels, once each.
C8_Witness ==
    \E id \in DOMAIN sms_messages :
        /\ SinglePart(id)
        /\ AllForwarded(id)
        /\ \A c \in Channels : \A tid \in TasksOf(id, c) :
              tlog[tid].fate = "delivered" /\ tlog[tid].attempts = 1

(* ------------------------------- C9 ----------------------------------- *)
UnsupportedSelected(task) ==
    LET selected == SelectedProviders(config.api_providers, task.provider) IN
    \E i \in DOMAIN selected :
        Upper(Get(selected[i], "method", "POST")) \notin SupportedMethods

\* C9: an API attempt whose selected providers include one with an
\* unsupported method is not treated as a retryable failure: the task's
\* retry_count is not incremented and the task does not go into a backoff
\* wait to be re-enqueued.
C9_UnsupportedMethodNotRetried ==
    [][(/\ pc["API"] = "inflight"
        /\ pc'["API"] # "inflight"
        /\ UnsupportedSelected(held["API"]))
       => /\ pc'["API"] # "sleeping"
          /\ \A p \in Places(held["API"].tid)' :
                p.task.retry_count = held["API"].retry_count]_vars

(* ------------------------------- C10 ---------------------------------- *)
Quiescent ==
    /\ \A c \in Channels : Queues[c] = <<>> /\ pc[c] = "idle"
    /\ \A tid \in DOMAIN tlog :
          tlog[tid].fate \in {"delivered", "terminal", "skipped"}

\* C10: with fair workers and finitely many arrivals, every task put on a
\* queue ends delivered, terminally failed or skipped, and from some point
\* on every queue is empty and no worker holds a task.
C10_EveryTaskSettles == <>[]Quiescent

\* All is settled after tasks were skipped, delivered and terminally failed.
C10_Witness ==
    /\ Quiescent
    /\ \A f \in {"delivered", "terminal", "skipped"} :
          \E tid \in DOMAIN tlog : tlog[tid].fate = f

(* ------------------------------- C11 ---------------------------------- *)
\* Channel X's worker sits in a backoff wait, or X is marked failed.
Stalled(X) == pc[X] = "sleeping" \/ X \in failed_services

\* Worker c can take the task at the head of its queue, can finish the send
\* it is in, and delivers the task if the requests go through.
CanProceed(c) ==
    /\ (pc[c] = "idle" /\ Queues[c] # <<>>) => ENABLED Dequeue(c)
    /\ pc[c] = "inflight" =>
          ENABLED (Attempt(c, Targets(c)) /\ Charge(c, Targets(c)))
    /\ (pc[c] = "inflight" /\ SendSucceeds(c, held[c], Targets(c))) =>
          ENABLED (/\ Attempt(c, Targets(c))
                   /\ Charge(c, Targets(c))
                   /\ tlog'[held[c].tid].fate = "delivered")

\* The step is worker X leaving a send attempt or a backoff wait.
WorkerStep(X) == pc[X] \in {"inflight", "sleeping"} /\ pc'[X] # pc[X]

\* Queue q lost nothing in the step: it is a prefix of what it is now.
KeepsTasks(c) ==
    /\ Len(Queues[c]') >= Len(Queues[c])
    /\ \A i \in DOMAIN Queues[c] : Queues[c]'[i] = Queues[c][i]

KeepsFlags(c) ==
    /\ Len(sms_messages') = Len(sms_messages)
    /\ \A id \in DOMAIN sms_messages :
          sms_messages[id][Column(c)] = 1 => sms_messages'[id][Column(c)] = 1

\* C11: while channel X's worker is in a backoff wait or X is in the
\* failure set, each other channel's worker can dequeue its next task and
\* deliver the task it holds; and no step of X's worker (failure, retry,
\* terminal failure, success) takes a task out of another channel's queue
\* or hands, or resets a forwarded flag another channel has set.
C11_OtherChannelsUnaffected ==
    /\ [](\A X \in Channels : Stalled(X) =>
             \A c \in Channels \ {X} : CanProceed(c))
    /\ [][\A X \in Channels : WorkerStep(X) =>
             \A c \in Channels \ {X} :
                /\ KeepsTasks(c)
                /\ KeepsFlags(c)
                /\ pc'[c] = pc[c]
                /\ held'[c] = held[c]]_vars

\* While Email waits in a backoff and API is marked failed, SMS has
\* delivered the message Email is retrying and the notification of the API
\* outage.
C11_Witness ==
    /\ pc["Email"] = "sleeping"
    /\ held["Email"].sms_id # NoId
    /\ sms_messages[held["Email"].sms_id].sms_forwarded = 1
    /\ "API" \in failed_services
    /\ \E tid \in NotificationsOn("SMS") : tlog[tid].fate = "delivered"

(* ------------------------------- C12 ---------------------------------- *)
InFlight(c) == {p \in Placed : p.chan = c /\ p.at = "inflight"}

\* The task instances of channel c, in the order they were first enqueued:
\* the task log grows by one entry per put of a fresh task.
TasksOn(c) == {tid \in DOMAIN tlog : tlog[tid].chan = c}

\* C12: a channel has at most one task in flight; fresh tasks stand in the
\* queue in the order they were enqueued, and a task gets its first send
\* attempt (or is in flight for it) only after every task enqueued before
\* it on that channel has had its first attempt.
C12_OneInFlightFreshInOrder ==
    \A c \in Channels :
        /\ Cardinality(InFlight(c)) <= 1
        /\ \A i, j \in DOMAIN Queues[c] :
              (/\ i < j
               /\ Queues[c][i].retry_count = 0
               /\ Queues[c][j].retry_count = 0)
              => Queues[c][i].tid < Queues[c][j].tid
        /\ Truthy(Recipients(c)) =>
              \A t1, t2 \in TasksOn(c) :
                 (/\ t1 < t2
                  /\ \/ tlog[t2].attempts >= 1
                     \/ pc[c] # "idle" /\ held[c].tid = t2)
                 => tlog[t1].attempts >= 1

\* Two messages' tasks have both been attempted on one channel, the second
\* while the first is back in the queue for a retry.
C12_Witness ==
    \E c \in Channels : \E t1, t2 \in TasksOn(c) :
        /\ t1 < t2
        /\ tlog[t1].sms_id # NoId /\ tlog[t2].sms_id # NoId
        /\ tlog[t1].fate = "live" /\ tlog[t1].attempts = 1
        /\ tlog[t2].fate = "delivered"
        /\ pc[c] = "inflight" /\ held[c].tid = t1

(* ------------------------------- C13 ---------------------------------- *)
\* C13: a failed task is in no queue while its worker waits; nothing leaves
\* the channel's queue during the wait; when the wait ends the task goes to
\* the tail, behind everything enqueued meanwhile.
C13_RetriedTaskGoesToTail ==
    /\ [](\A c \in Channels : pc[c] = "sleeping" =>
             /\ held[c].retry_count >= 1
             /\ \A i \in DOMAIN Queues[c] : Queues[c][i].tid # held[c].tid)
    /\ [][\A c \in Channels :
             /\ (pc[c] = "sleeping" /\ pc'[c] = "sleeping") => KeepsTasks(c)
             /\ (pc[c] = "sleeping" /\ pc'[c] # "sleeping") =>
                   /\ Len(Queues[c]') = Len(Queues[c]) + 1
                   /\ KeepsTasks(c)
                   /\ Last(Queues[c]') = held[c]]_vars

\* A message enqueued later has been delivered on a channel on which an
\* earlier message is still retrying.
C13_Witness ==
    \E c \in Channels : \E t1, t2 \in TasksOn(c) :
        /\ t1 < t2
        /\ tlog[t1].sms_id # NoId /\ tlog[t2].sms_id # NoId
        /\ tlog[t1].sms_id < tlog[t2].sms_id
        /\ tlog[t2].fate = "delivered"
        /\ tlog[t1].fate = "live" /\ tlog[t1].attempts >= 1
        /\ \E i \in DOMAIN Queues[c] :
              Queues[c][i].tid = t1 /\ Queues[c][i].retry_count = 1

(* ------------------------------- C14 ---------------------------------- *)
KeyOf(sms) == <<sms.number, sms.udh.reference>>

\* The step closes the assembly sms belongs to: no buffer for its key is
\* left.  (A step that leaves the assembly open leaves its buffer.)
Completes(sms) == KeyOf(sms) \notin DOMAIN multipart_messages'

\* How many tasks the step appended to channel c's queue.
Gained(c) == Len(Queues[c]') - Len(Queues[c])

\* C14 as stated: a fragment that leaves the assembly open enqueues
\* nothing; the completing fragment enqueues exactly one task per channel,
\* each with the complete text.
C14_NothingEnqueuedBeforeCompletion ==
    [][\A sms \in IntakeArrivals, provider \in Providers :
          (handleSms(sms, provider) /\ "udh" \in DOMAIN sms)
          => IF Completes(sms)
             THEN \A c \in Channels :
                     /\ Gained(c) = 1
                     /\ CompletesExactly(sms) =>
                           Last(Queues[c]').message =
                              InPartOrder(FragmentsWith(sms), sms.udh.parts)
             ELSE QueuesUnchanged]_vars

\* C14 (amended): a fragment enqueues nothing on the SMS and Email queues
\* before the assembly completes; a fragment with part number 1 enqueues
\* one API task carrying that fragment's text alone; the completing
\* fragment enqueues, after that, exactly one task per channel, all three
\* with the same id and text, the complete text when the fragments cover
\* 1..N once.  Nothing already queued is touched.
C14_FirstPartToApiRestAtCompletion ==
    [][\A sms \in IntakeArrivals, provider \in Providers :
          (handleSms(sms, provider) /\ "udh" \in DOMAIN sms)
          => LET atEnd == IF Completes(sms) THEN 1 ELSE 0
                 early == IF sms.udh.number = 1 THEN 1 ELSE 0
             IN /\ \A c \in Channels : KeepsTasks(c)
                /\ Gained("SMS") = atEnd
                /\ Gained("Email") = atEnd
                /\ Gained("API") = early + atEnd
                /\ early = 1 =>
                      LET t == api_queue'[Len(api_queue) + 1] IN
                      /\ t.message = sms.text
                      /\ t.retry_count = 0
                      /\ t.sms_id \in DOMAIN sms_messages'
                /\ atEnd = 1 =>
                      /\ \A c \in Channels :
                            /\ Last(Queues[c]').message = Last(sms_queue').message
                            /\ Last(Queues[c]').sms_id = Last(sms_queue').sms_id
                            /\ Last(Queues[c]').retry_count = 0
                      /\ CompletesExactly(sms) =>
                            Last(sms_queue').message =
                               InPartOrder(FragmentsWith(sms), sms.udh.parts)]_vars

\* A two-part message has been reassembled: the API queue holds its first
\* part and the complete text, the SMS and Email queues the complete text.
C14_Witness ==
    /\ Len(sms_messages) = 1
    /\ multipart_messages = <<>>
    /\ Len(api_queue) = 2
    /\ api_queue[1].message = <<"a">>
    /\ api_queue[2].message = <<"a", "b">>
    /\ Len(sms_queue) = 1 /\ sms_queue[1].message = <<"a", "b">>
    /\ Len(email_queue) = 1 /\ email_queue[1].message = <<"a", "b">>

(* ------------------------------- C15 ---------------------------------- *)
\* C15: when the last fragment of a message of N >= 2 parts, covering
\* 1..N once, is ingested, the record's message_text is the fragment texts
\* concatenated in ascending part number.
C15_PersistedTextIsCompleteText ==
    [][\A sms \in IntakeArrivals, provider \in Providers :
          (/\ handleSms(sms, provider)
           /\ "udh" \in DOMAIN sms
           /\ sms.udh.parts >= 2
           /\ CompletesExactly(sms))
          => sms_messages'[Last(sms_queue').sms_id].message_text =
                InPartOrder(FragmentsWith(sms), sms.udh.parts)]_vars

(* ------------------------------- C18 ---------------------------------- *)
PartNumbers(parts) == {parts[i][1] : i \in DOMAIN parts}

\* C18: every buffer holds at most one entry per part number; a fragment
\* whose part number is already buffered replaces that entry and the buffer
\* does not grow; completion is declared only when every part number
\* 1..total_parts is present.
C18_DuplicatePartReplaces ==
    /\ [](\A key \in DOMAIN multipart_messages :
             Cardinality(PartNumbers(multipart_messages[key].parts))
                = Len(multipart_messages[key].parts))
    /\ [][\A sms \in IntakeArrivals, provider \in Providers :
             (handleSms(sms, provider) /\ "udh" \in DOMAIN sms)
             => /\ (/\ KeyOf(sms) \in DOMAIN multipart_messages
                    /\ KeyOf(sms) \in DOMAIN multipart_messages'
                    /\ sms.udh.number \in
                          PartNumbers(multipart_messages[KeyOf(sms)].parts))
                   => Len(multipart_messages'[KeyOf(sms)].parts)
                         = Len(multipart_messages[KeyOf(sms)].parts)
                /\ Completes(sms) =>
                      PartNumbers(FragmentsWith(sms)) =
                         1..(IF KeyOf(sms) \in DOMAIN multipart_messages
                             THEN multipart_messages[KeyOf(sms)].total_parts
                             ELSE sms.udh.parts)]_vars

(* ------------------------------- C19 ---------------------------------- *)
\* The total_parts the assembly of sms's key goes by: the one recorded from
\* its first-seen fragment.
FirstSeenTotal(sms) ==
    IF KeyOf(sms) \in DOMAIN multipart_messages
    THEN multipart_messages[KeyOf(sms)].total_parts
    ELSE sms.udh.parts

\* C19: an assembly is declared complete exactly when the number of its
\* fragments reaches the total_parts of its first-seen fragment, whatever
\* total_parts later fragments report; the recorded value does not change.
C19_FirstSeenTotalGoverns ==
    [][\A sms \in IntakeArrivals, provider \in Providers :
          (handleSms(sms, provider) /\ "udh" \in DOMAIN sms)
          => /\ Completes(sms) <=>
                   Len(FragmentsWith(sms)) = FirstSeenTotal(sms)
             /\ ~Completes(sms) =>
                   multipart_messages'[KeyOf(sms)].total_parts
                      = FirstSeenTotal(sms)]_vars

(* ------------------------------- C20 ---------------------------------- *)
\* C20: no buffer holds more entries than its recorded total_parts; the
\* step that emits the complete message removes the buffer of its key, and
\* a fragment arriving after that starts from an empty buffer.
C20_BufferBoundedRemovedOnce ==
    /\ [](\A key \in DOMAIN multipart_messages :
             Len(multipart_messages[key].parts)
                <= multipart_messages[key].total_parts)
    /\ [][\A sms \in IntakeArrivals, provider \in Providers :
             (/\ handleSms(sms, provider)
              /\ "udh" \in DOMAIN sms
              /\ Len(sms_queue') > Len(sms_queue))
             => KeyOf(sms) \notin DOMAIN multipart_messages']_vars

(* ------------------------------- C16 ---------------------------------- *)
\* The step is the terminal failure of message task tid on channel X that
\* calls notify_failure.
NotifyingFailure(tid) ==
    /\ Ends(tid, "terminal")
    /\ tlog[tid].chan \notin failed_services
    /\ tlog[tid].sms_id # NoId

\* The step put exactly one task on channel c's queue, a notification.
GetsNotification(c) ==
    /\ Gained(c) = 1
    /\ IsNotification(Last(Queues[c]'))
    /\ Last(Queues[c]').retry_count = 0

\* C16 as stated: the notification goes to the queue of every channel
\* whose recipients or providers are non-empty.
C16_NotificationToEveryConfiguredChannel ==
    [][\A tid \in DOMAIN tlog :
          NotifyingFailure(tid)
          => \A c \in Channels :
                Truthy(Recipients(c)) => GetsNotification(c)]_vars

\* C16 (amended): the notification goes to the queue of exactly the
\* channels whose recipients or providers are non-empty and which are not
\* in the failure set, the failing channel counting as in it; the other
\* queues get nothing.
C16_NotificationToConfiguredWorkingChannels ==
    [][\A tid \in DOMAIN tlog :
          NotifyingFailure(tid)
          => \A c \in Channels :
                IF /\ Truthy(Recipients(c))
                   /\ c \notin failed_services
                   /\ c # tlog[tid].chan
                THEN GetsNotification(c) /\ KeepsTasks(c)
                ELSE Queues[c]' = Queues[c]]_vars

\* Without SMS recipients, Email has failed terminally while API was not
\* marked failed: the API queue got the notification of the Email outage,
\* the SMS and Email queues none.
C16_Witness ==
    /\ ~Truthy(Recipients("SMS"))
    /\ TerminalWithId("Email") # {}
    /\ \E p \in Placed : /\ p.chan = "API"
                         /\ IsNotification(p.task)
                         /\ p.task.message[2] = "Email"
    /\ NotificationsOn("SMS") = {}
    /\ NotificationsOn("Email") = {}

(* ------------------------------- C17 ---------------------------------- *)
\* The step is worker c taking a task without message id from its queue
\* (and skipping it, if nothing is configured), or ending a send attempt
\* or a backoff wait of such a task.
HandlesTaskWithoutId(c) ==
    \/ /\ pc[c] = "idle"
       /\ Len(Queues[c]') < Len(Queues[c])
       /\ Head(Queues[c]).sms_id = NoId
    \/ /\ WorkerStep(c)
       /\ held[c].sms_id = NoId

\* C17: no step in which a worker handles a task without message id
\* (dequeue or skip, success, retry, terminal failure, re-enqueue) changes
\* the table of delivery records.
C17_TaskWithoutIdLeavesRecords ==
    [][\A c \in Channels :
          HandlesTaskWithoutId(c) => sms_messages' = sms_messages]_vars

\* A notification has been delivered on a channel on which the newest
\* record is not marked forwarded; another has failed terminally.
C17_Witness ==
    /\ \E c \in Channels : \E tid \in NotificationsOn(c) :
          /\ tlog[tid].fate = "delivered"
          /\ sms_messages[Len(sms_messages)][Column(c)] = 0
    /\ \E c \in Channels : \E tid \in NotificationsOn(c) :
          tlog[tid].fate = "terminal"

(* ------------------------------- C21 ---------------------------------- *)
\* The records that carry key's sender and reference.
RowsOf(key) ==
    {i \in DOMAIN sms_messages :
        /\ sms_messages[i].sender = key[1]
        /\ "reference" \in DOMAIN sms_messages[i]
        /\ sms_messages[i].reference = key[2]}

\* The records the step created or changed.
Written ==
    {i \in DOMAIN sms_messages' :
        i \notin DOMAIN sms_messages \/ sms_messages'[i] # sms_messages[i]}

\* C21: an open assembly has exactly one record; every further fragment of
\* its (sender, reference) is written to that record and to no other, no
\* record is added for it, and every task the fragment enqueues, the tasks
\* at completion among them, carries that record's id.
C21_OpenAssemblyKeepsItsId ==
    /\ [](\A key \in DOMAIN multipart_messages :
             Cardinality(RowsOf(key)) = 1)
    /\ [][\A sms \in IntakeArrivals, provider \in Providers :
             (/\ handleSms(sms, provider)
              /\ "udh" \in DOMAIN sms
              /\ KeyOf(sms) \in DOMAIN multipart_messages)
             => /\ Written # {}
                /\ Written \subseteq RowsOf(KeyOf(sms))
                /\ Len(sms_messages') = Len(sms_messages)
                /\ \A c \in Channels : \A t \in NewTasks(c) :
                       t.sms_id \in RowsOf(KeyOf(sms))]_vars

\* After a single-part message, a two-part message has been reassembled in
\* record 2, and all its tasks carry id 2.
C21_Witness ==
    /\ Len(sms_messages) = 2
    /\ RowsOf(<<"+111", 7>>) = {2}
    /\ multipart_messages = <<>>
    /\ Len(sms_queue) = 2 /\ Len(api_queue) = 3
    /\ sms_queue[2].sms_id = 2 /\ Len(sms_queue[2].message) = 2
    /\ api_queue[2].sms_id = 2 /\ api_queue[3].sms_id = 2
    /\ email_queue[2].sms_id = 2

(* ------------------------------- C22 ---------------------------------- *)
\* sms begins a logical message: it has no header, or no assembly is open
\* for its (sender, reference).
BeginsMessage(sms) ==
    "udh" \in DOMAIN sms => KeyOf(sms) \notin DOMAIN multipart_messages

\* C22: the fragment that begins a logical message creates a record of its
\* own and leaves the records of earlier messages as they are (their text
\* and flags), also when an earlier, completed message had the same
\* (sender, reference); the tasks it enqueues carry the new id.
C22_EachMessageOwnRecord ==
    [][\A sms \in IntakeArrivals, provider \in Providers :
          (handleSms(sms, provider) /\ BeginsMessage(sms))
          => /\ Len(sms_messages') = Len(sms_messages) + 1
             /\ \A i \in DOMAIN sms_messages : sms_messages'[i] = sms_messages[i]
             /\ \A c \in Channels : \A t \in NewTasks(c) :
                    t.sms_id = Len(sms_messages')]_vars

(* ------------------------------- C23 ---------------------------------- *)
\* C23: a step changes the membership of channel c in the failure set only
\* if it is worker c ending a send attempt, and then no other worker
\* moves; so every worker leaves the other channels' membership alone, and
\* neither the intake path nor notify_failure, which runs inside the
\* failing worker's step, changes the set beyond that worker's own name.
C23_WorkersTouchOwnNameOnly ==
    [][\A c \in Channels :
          ((c \in failed_services) # (c \in failed_services'))
          => /\ pc[c] = "inflight"
             /\ pc'[c] = "idle"
             /\ budget' = budget
             /\ \A d \in Channels \ {c} :
                   /\ pc'[d] = pc[d]
                   /\ (d \in failed_services) = (d \in failed_services')]_vars

\* Email has failed terminally and recovered while SMS stayed marked failed.
C23_Witness ==
    /\ failed_services = {"SMS"}
    /\ \E tid \in DOMAIN tlog :
          tlog[tid].chan = "Email" /\ tlog[tid].fate = "terminal"
    /\ \E tid \in DOMAIN tlog :
          tlog[tid].chan = "Email" /\ tlog[tid].fate = "delivered"

(* ------------------------------- C26 ---------------------------------- *)
InQueue(c, tid) == {i \in DOMAIN Queues[c] : Queues[c][i].tid = tid}

Holders(tid) == {c \in Channels : pc[c] # "idle" /\ held[c].tid = tid}

\* In how many places task instance tid is: queue positions and workers.
Copies(tid) ==
    Cardinality(InQueue("API", tid)) + Cardinality(InQueue("SMS", tid))
    + Cardinality(InQueue("Email", tid)) + Cardinality(Holders(tid))

\* C26: a task instance that is not finished is in exactly one place, its
\* channel's queue or its channel's worker; a finished one (delivered,
\* terminal, skipped) is nowhere.  A step that takes a task from a queue
\* hands it to the worker or skips it; a worker that lets go of a task has
\* finished it or put it back on its own queue.
C26_TaskInExactlyOnePlace ==
    /\ [](\A tid \in DOMAIN tlog :
             IF tlog[tid].fate = "live"
             THEN /\ Copies(tid) = 1
                  /\ Cardinality(InQueue(tlog[tid].chan, tid))
                     + Cardinality(Holders(tid) \cap {tlog[tid].chan}) = 1
             ELSE Copies(tid) = 0)
    /\ [][\A c \in Channels :
             (pc[c] # "idle" /\ pc'[c] = "idle")
             => \/ tlog'[held[c].tid].fate \in {"delivered", "terminal"}
                \/ /\ pc[c] = "sleeping"
                   /\ Cardinality({i \in DOMAIN Queues[c]' :
                         Queues[c]'[i].tid = held[c].tid}) = 1]_vars

\* One task is back in its queue after a failure, one was skipped, one has
\* failed terminally.
C26_Witness ==
    /\ \E p \in Placed : p.at = "queue" /\ p.task.retry_count = 1
    /\ \E tid \in DOMAIN tlog : tlog[tid].fate = "skipped"
    /\ \E tid \in DOMAIN tlog : tlog[tid].fate = "terminal"

(* ------------------------------- C27 ---------------------------------- *)
Flag(table, id, c) == table[id][Column(c)]

\* The (record, channel) pairs whose flag the step changed.
FlagsChanged ==
    {x \in (DOMAIN sms_messages) \X Channels :
        Flag(sms_messages', x[1], x[2]) # Flag(sms_messages, x[1], x[2])}

\* C27: the flag of record id for channel X is 1 exactly if a task with
\* that id has been delivered on X; a step sets at most one flag, by
\* delivering such a task, and changes nothing else in the table; a flag
\* that is 1 stays 1.
C27_FlagIffDelivered ==
    /\ [](\A id \in DOMAIN sms_messages, X \in Channels :
             /\ Flag(sms_messages, id, X) \in {0, 1}
             /\ Flag(sms_messages, id, X) = 1
                <=> \E tid \in TasksOf(id, X) : tlog[tid].fate = "delivered")
    /\ [][/\ Cardinality(FlagsChanged) <= 1
          /\ \A x \in FlagsChanged :
                /\ Flag(sms_messages, x[1], x[2]) = 0
                /\ Flag(sms_messages', x[1], x[2]) = 1
                /\ \E tid \in TasksOf(x[1], x[2]) : Ends(tid, "delivered")
                /\ sms_messages' =
                      [sms_messages EXCEPT ![x[1]][Column(x[2])] = 1]]_vars

\* A record is marked forwarded on Email alone; on SMS its task has failed
\* terminally, on API it is still to be sent.
C27_Witness ==
    \E id \in DOMAIN sms_messages :
        /\ sms_messages[id].email_forwarded = 1
        /\ sms_messages[id].sms_forwarded = 0
        /\ sms_messages[id].api_forwarded = 0
        /\ \E tid \in TasksOf(id, "SMS") : tlog[tid].fate = "terminal"

(* ------------------------------- C28 ---------------------------------- *)
Notifications == {tid \in DOMAIN tlog : tlog[tid].sms_id = NoId}

MessageFailures ==
    {tid \in DOMAIN tlog : tlog[tid].sms_id # NoId /\ tlog[tid].fate = "terminal"}

\* C28: the terminal failure of a task without message id enqueues nothing
\* and calls notify_failure for nobody; the notification tasks ever
\* enqueued number at most two per terminal failure of a task with a
\* message id.
C28_NoNotificationLoops ==
    /\ [](Cardinality(Notifications) <= 2 * Cardinality(MessageFailures))
    /\ [][\A tid \in DOMAIN tlog :
             (Ends(tid, "terminal") /\ tlog[tid].sms_id = NoId)
             => /\ Len(tlog') = Len(tlog)
                /\ QueuesUnchanged
                /\ notified' = notified]_vars

\* One message has failed terminally on one channel; of the two
\* notifications one has failed terminally in turn, and nothing followed.
C28_Witness ==
    /\ Cardinality(MessageFailures) = 1
    /\ Cardinality(Notifications) = 2
    /\ \E tid \in Notifications : tlog[tid].fate = "terminal"
    /\ Cardinality(failed_services) = 2

(* ------------------------------- C29 ---------------------------------- *)
\* C29: a notification is never put on the queue of a channel that is in
\* the failure set when notify_failure runs (the set after the failing
\* channel was added); the channel it names is in that set, so no channel
\* gets the notification of its own outage.
C29_NoNotificationToFailedChannel ==
    /\ [][\A c \in Channels : \A t \in NewTasks(c) :
             IsNotification(t)
             => /\ c \notin failed_services'
                /\ t.message[2] \in failed_services'
                /\ t.message[2] # c]_vars
    /\ [](\A p \in Placed :
             IsNotification(p.task) => p.task.message[2] # p.chan)

\* SMS has failed terminally while API was marked failed: Email got the
\* notification of the SMS outage, API got none.
C29_Witness ==
    /\ {"API", "SMS"} \subseteq failed_services
    /\ notified["SMS"] = 1
    /\ NotificationsOn("API") = {}
    /\ \E p \in Placed : /\ p.chan = "Email"
                         /\ IsNotification(p.task)
                         /\ p.task.message[2] = "SMS"

(* ------------------------------- C24 ---------------------------------- *)
\* The providers a task's hint selects, as positions in the configured list.
Chosen(task) ==
    {i \in DOMAIN config.api_providers :
        IF task.provider # NoProvider
        THEN config.api_providers[i].name = task.provider
        ELSE Get(config.api_providers[i], "default", FALSE)}

\* The chosen providers a request can be made to: those with a method the
\* code knows.
Askable(task) ==
    {config.api_providers[i].name : i \in
        {j \in Chosen(task) :
            Get(config.api_providers[j], "method", "POST") \in
               {"POST", "post", "GET", "get", "PUT", "put"}}}

ApiTasks == {p.task : p \in {x \in Placed : x.chan = "API"}}

\* C24: in one attempt of an API task a request is made to every selected
\* provider (with a method the code knows), once each, whichever of the
\* requests succeed; the attempt succeeds iff one of these requests does;
\* an empty selection gives a failed attempt with no request.  The worker
\* delivers the task exactly if the attempt succeeded.
C24_EverySelectedProviderTried ==
    /\ [](\A task \in ApiTasks : \A ok \in SUBSET Targets("API") :
             LET r == send_to_api_providers(config.api_providers,
                                            task.provider, ok)
                 asked == {r.requests[i].name : i \in DOMAIN r.requests}
             IN /\ asked = Askable(task)
                /\ Len(r.requests) = Cardinality(Askable(task))
                /\ r.success <=> Askable(task) \cap ok # {}
                /\ Chosen(task) = {} => r.requests = <<>> /\ ~r.success)
    /\ [][\A ok \in SUBSET Targets("API") :
             (Attempt("API", ok) /\ Charge("API", ok))
             => (tlog'[held["API"].tid].fate = "delivered"
                 <=> Askable(held["API"]) \cap ok # {})]_vars

\* With the two default providers selected, a task has been delivered on
\* its second attempt; a task with the hint of an unknown name has failed.
C24_Witness ==
    /\ config = ConfigProviders
    /\ \E tid \in DOMAIN tlog :
          tlog[tid].fate = "delivered" /\ tlog[tid].attempts = 2
    /\ \E task \in ApiTasks : task.provider = "p9" /\ task.retry_count >= 1

(* ------------------------------- C25 ---------------------------------- *)
\* The largest max_retries among the providers the task selects, the
\* global cap standing in where a provider has none.
SelectedCap(task) ==
    LET caps == {Get(config.api_providers[i], "max_retries", global_max_retries) :
                    i \in Chosen(task)}
    IN CHOOSE m \in caps : \A n \in caps : n <= m

\* C25: a failed attempt of an API task that selects some provider is
\* retried exactly if the task's failures so far are fewer than the largest
\* cap among the selected providers.
C25_CapOverSelectedProviders ==
    [][(/\ pc["API"] = "inflight"
        /\ pc'["API"] # "inflight"
        /\ Chosen(held["API"]) # {}
        /\ tlog'[held["API"].tid].fate # "delivered")
       => (pc'["API"] = "sleeping"
           <=> held["API"].retry_count + 1 < SelectedCap(held["API"]))]_vars

(* ------------------------------- C30 ---------------------------------- *)
\* C30: no record of an open assembly has a forwarded flag set; a step
\* that sets a flag delivers a task whose text is the message's complete
\* text, so the record's assembly is not open and, for a message of one
\* part, the text is the record's.
C30_FlagOnlyAfterCompleteText ==
    /\ [](\A key \in DOMAIN multipart_messages : \A id \in RowsOf(key) :
             \A c \in Channels : Flag(sms_messages, id, c) = 0)
    /\ [][\A x \in FlagsChanged :
             /\ \A key \in DOMAIN multipart_messages : x[1] \notin RowsOf(key)
             /\ "reference" \notin DOMAIN sms_messages[x[1]] =>
                   held[x[2]].message = sms_messages[x[1]].message_text]_vars

====
